---------------------------- MODULE Spec2Model ----------------------------
(* A model of convert_data (src/main.py): a CSV file of rows               *)
(* (date, distance, reading) is read row by row, each measured field is    *)
(* converted to the requested target unit or passed through, and the rows  *)
(* are written to a second file.                                           *)
(*                                                                         *)
(* A Python str is a sequence of one-character strings: "41m" is           *)
(* <<"4", "1", "m">>.  A date is opaque to the program and is a sequence   *)
(* of one token.  A float is the exact rational [neg, n, d] = (+/-) n / d; *)
(* the sign is kept apart from the magnitude so that -0.0 is a value.      *)
(* The alphabet of the inputs has no exponent letter, no underscore and    *)
(* none of the letters of "inf" / "nan" next to each other, so every       *)
(* string float() accepts here is a plain decimal literal.                 *)
EXTENDS Integers, Sequences, FiniteSets, TLC

(***************************************************************************)
(* Bounds                                                                  *)
(***************************************************************************)
MaxRows == 2

(***************************************************************************)
(* Python str operations used by convert_data                              *)
(***************************************************************************)
Digits == <<"0", "1", "2", "3", "4", "5", "6", "7", "8", "9">>

IsDigit(c) == \E i \in 1..Len(Digits) : Digits[i] = c

DigitVal(c) == (CHOOSE i \in 1..Len(Digits) : Digits[i] = c) - 1

IsSpace(c) == c = " "

\* str.lower(), one character
Lower(c) ==
    CASE c = "F" -> "f"
      [] c = "T" -> "t"
      [] c = "M" -> "m"
      [] c = "C" -> "c"
      [] c = "K" -> "k"
      [] OTHER -> c

\* str.lower()
LowerStr(s) == [i \in 1..Len(s) |-> Lower(s[i])]

\* s[-k:]
LastChars(s, k) == IF Len(s) <= k THEN s ELSE SubSeq(s, Len(s) - k + 1, Len(s))

\* s[:-k]
DropLast(s, k) == IF Len(s) <= k THEN <<>> ELSE SubSeq(s, 1, Len(s) - k)

\* c in s, for a one-character c
Contains(s, c) == \E i \in 1..Len(s) : s[i] = c

RECURSIVE LStrip(_)
LStrip(s) == IF s # <<>> /\ IsSpace(Head(s)) THEN LStrip(Tail(s)) ELSE s

RECURSIVE RStrip(_)
RStrip(s) == IF s # <<>> /\ IsSpace(s[Len(s)]) THEN RStrip(DropLast(s, 1)) ELSE s

\* str.strip()
Strip(s) == RStrip(LStrip(s))

\* str.split(sep), for a one-character sep: the parts between the separators
RECURSIVE SplitFrom(_, _, _)
SplitFrom(s, sep, part) ==
    IF s = <<>> THEN <<part>>
    ELSE IF Head(s) = sep THEN <<part>> \o SplitFrom(Tail(s), sep, <<>>)
    ELSE SplitFrom(Tail(s), sep, Append(part, Head(s)))

Split(s, sep) == SplitFrom(s, sep, <<>>)

(***************************************************************************)
(* float(): the decimal literals of the alphabet                           *)
(***************************************************************************)
RECURSIVE Pow10(_)
Pow10(k) == IF k = 0 THEN 1 ELSE 10 * Pow10(k - 1)

RECURSIVE DigitsVal(_)
DigitsVal(s) == IF s = <<>> THEN 0 ELSE 10 * DigitsVal(DropLast(s, 1)) + DigitVal(s[Len(s)])

AllDigits(s) == \A i \in 1..Len(s) : IsDigit(s[i])

Unsigned(s) == IF s # <<>> /\ Head(s) \in {"-", "+"} THEN Tail(s) ELSE s

\* does float(s) return (TRUE) or raise ValueError (FALSE)
IsFloat(s) ==
    LET body  == Unsigned(Strip(s))
        parts == Split(body, ".")
    IN  /\ Len(parts) \in {1, 2}
        /\ \A i \in 1..Len(parts) : AllDigits(parts[i])
        /\ \E i \in 1..Len(parts) : parts[i] # <<>>

\* float(s), for IsFloat(s)
Float(s) ==
    LET t     == Strip(s)
        parts == Split(Unsigned(t), ".")
        frac  == IF Len(parts) = 2 THEN parts[2] ELSE <<>>
    IN  [neg |-> t # <<>> /\ Head(t) = "-",
         n   |-> DigitsVal(parts[1] \o frac),
         d   |-> Pow10(Len(frac))]

(***************************************************************************)
(* The converters of the convertor package                                 *)
(***************************************************************************)
Signed(x) == IF x.neg THEN 0 - x.n ELSE x.n

Abs(i) == IF i < 0 THEN 0 - i ELSE i

\* an exact sum or difference that is zero is +0.0
FromSigned(sn, d) == [neg |-> sn < 0, n |-> Abs(sn), d |-> d]

\* celsius_to_fahrenheit(c) = c * 9/5 + 32
to_F(c) == FromSigned(9 * Signed(c) + 160 * c.d, 5 * c.d)

\* fahrenheit_to_celsius(f) = (f - 32) * 5/9
to_C(f) == FromSigned(5 * (Signed(f) - 32 * f.d), 9 * f.d)

\* meters_to_feet(m) = m * 3.28084  (3.28084 = 82021 / 25000)
to_ft(m) == [neg |-> m.neg, n |-> m.n * 82021, d |-> m.d * 25000]

\* feet_to_meters(ft) = ft / 3.28084
to_m(ft) == [neg |-> ft.neg, n |-> ft.n * 25000, d |-> ft.d * 82021]

(***************************************************************************)
(* f"{x:.2f}"                                                              *)
(***************************************************************************)
RECURSIVE NatStr(_)
NatStr(k) == IF k < 10 THEN <<Digits[k + 1]>> ELSE Append(NatStr(k \div 10), Digits[(k % 10) + 1])

\* n / d rounded to the nearest integer, ties to even
RoundHalfEven(n, d) ==
    LET q == n \div d
        r == n % d
    IN  IF 2 * r > d THEN q + 1
        ELSE IF 2 * r < d THEN q
        ELSE q + (q % 2)

\* |x| in hundredths, rounded
Hundredths(x) == (x.n \div x.d) * 100 + RoundHalfEven((x.n % x.d) * 100, x.d)

Fmt2(x) ==
    LET h == Hundredths(x)
    IN  (IF x.neg THEN <<"-">> ELSE <<>>)
        \o NatStr(h \div 100) \o <<".">>
        \o <<Digits[((h % 100) \div 10) + 1], Digits[(h % 10) + 1]>>


(***************************************************************************)
(* The parsing and conversion steps of the loop body                       *)
(***************************************************************************)
\* ParseDistance without lower(): only the spelling "ft" is feet
ParseDistanceCaseSensitive(distance) ==
    IF LastChars(distance, 2) = <<"f", "t">>
    THEN [ok |-> TRUE, value |-> DropLast(distance, 2), unit |-> <<"f", "t">>]
    ELSE IF distance = <<>>
    THEN [ok |-> FALSE, value |-> <<>>, unit |-> <<>>]
    ELSE [ok |-> TRUE, value |-> DropLast(distance, 1), unit |-> LastChars(distance, 1)]

\* lines 57-60: the value / unit split of the distance field.  distance[-1]
\* of an empty field raises IndexError.
ParseDistance(distance) ==
    IF LowerStr(LastChars(distance, 2)) = <<"f", "t">>
    THEN [ok |-> TRUE, value |-> DropLast(distance, 2), unit |-> <<"f", "t">>]
    ELSE IF distance = <<>>
    THEN [ok |-> FALSE, value |-> <<>>, unit |-> <<>>]
    ELSE [ok |-> TRUE, value |-> DropLast(distance, 1), unit |-> LastChars(distance, 1)]

\* lines 62-64: the two-way unpacking of reading.split("°") raises ValueError
\* unless the field has exactly one degree sign.
ParseReading(reading) ==
    LET parts == Split(reading, "°")
    IN  IF Len(parts) # 2
        THEN [ok |-> FALSE, value |-> <<>>, unit |-> <<>>]
        ELSE [ok |-> TRUE, value |-> parts[1], unit |-> <<"°">> \o Strip(parts[2])]

\* NewDistance re-rendering a field that is already in the target unit
NewDistanceNormalising(target, distance, value, unit) ==
    IF target = "m" /\ unit \in {<<"f", "t">>, <<"m">>}
    THEN IF IsFloat(value)
         THEN [ok |-> TRUE,
               s  |-> Fmt2(IF unit = <<"m">> THEN Float(value) ELSE to_m(Float(value))) \o <<"m">>]
         ELSE [ok |-> FALSE, s |-> <<>>]
    ELSE IF target = "f" /\ unit \in {<<"f", "t">>, <<"m">>}
    THEN IF IsFloat(value)
         THEN [ok |-> TRUE,
               s  |-> Fmt2(IF unit = <<"m">> THEN to_ft(Float(value)) ELSE Float(value)) \o <<"f", "t">>]
         ELSE [ok |-> FALSE, s |-> <<>>]
    ELSE [ok |-> TRUE, s |-> distance]

\* NewDistance taking the output suffix "ft" as a selector of feet too
NewDistanceFtSelector(target, distance, value, unit) ==
    IF target = "m" /\ unit = <<"f", "t">>
    THEN IF IsFloat(value)
         THEN [ok |-> TRUE, s |-> Fmt2(to_m(Float(value))) \o <<"m">>]
         ELSE [ok |-> FALSE, s |-> <<>>]
    ELSE IF target \in {"f", "ft"} /\ unit = <<"m">>
    THEN IF IsFloat(value)
         THEN [ok |-> TRUE, s |-> Fmt2(to_ft(Float(value))) \o <<"f", "t">>]
         ELSE [ok |-> FALSE, s |-> <<>>]
    ELSE [ok |-> TRUE, s |-> distance]

\* lines 67-74: float() raises ValueError (ok = FALSE) only on a branch that converts
NewDistance(target, distance, value, unit) ==
    IF target = "m" /\ unit = <<"f", "t">>
    THEN IF IsFloat(value)
         THEN [ok |-> TRUE, s |-> Fmt2(to_m(Float(value))) \o <<"m">>]
         ELSE [ok |-> FALSE, s |-> <<>>]
    ELSE IF target = "f" /\ unit = <<"m">>
    THEN IF IsFloat(value)
         THEN [ok |-> TRUE, s |-> Fmt2(to_ft(Float(value))) \o <<"f", "t">>]
         ELSE [ok |-> FALSE, s |-> <<>>]
    ELSE [ok |-> TRUE, s |-> distance]

\* NewReading with the two converters swapped
NewReadingSwapped(target, reading, value, unit) ==
    IF target = "C" /\ Contains(unit, "F")
    THEN IF IsFloat(value)
         THEN [ok |-> TRUE, s |-> Fmt2(to_F(Float(value))) \o <<"°", "C">>]
         ELSE [ok |-> FALSE, s |-> <<>>]
    ELSE IF target = "F" /\ Contains(unit, "C")
    THEN IF IsFloat(value)
         THEN [ok |-> TRUE, s |-> Fmt2(to_C(Float(value))) \o <<"°", "F">>]
         ELSE [ok |-> FALSE, s |-> <<>>]
    ELSE [ok |-> TRUE, s |-> reading]

\* lines 77-84
NewReading(target, reading, value, unit) ==
    IF target = "C" /\ Contains(unit, "F")
    THEN IF IsFloat(value)
         THEN [ok |-> TRUE, s |-> Fmt2(to_C(Float(value))) \o <<"°", "C">>]
         ELSE [ok |-> FALSE, s |-> <<>>]
    ELSE IF target = "F" /\ Contains(unit, "C")
    THEN IF IsFloat(value)
         THEN [ok |-> TRUE, s |-> Fmt2(to_F(Float(value))) \o <<"°", "F">>]
         ELSE [ok |-> FALSE, s |-> <<>>]
    ELSE [ok |-> TRUE, s |-> reading]

\* OutRow without the date column
OutRowNoDate(d, new_distance, new_reading) == <<new_distance, new_reading>>

\* line 86: the row handed to the writer
OutRow(d, new_distance, new_reading) == <<d, new_distance, new_reading>>

(***************************************************************************)
(* Inputs: the files and the target selectors the runs are checked on      *)
(***************************************************************************)
Date1 == <<"2024-01-01">>
Date2 == <<"2024-01-02">>

Rows ==
    { <<Date1, <<"4", "1", "m">>, <<"1", "0", "°", "C">>>>,
      <<Date2, <<"1", "0", "f", "t">>, <<"3", "2", "°", "F">>>>,
      <<Date1, <<"1", "0", "F", "T">>, <<"0", "°", "C">>>>,
      <<Date2, <<"1", "0", "F", "t">>, <<"1", "0", "°", " ", "C">>>>,
      <<Date1, <<"1", "0", "f", "T">>, <<"3", "1", ".", "9", "9", "9", "°", "F">>>>,
      <<Date2, <<" ", "5", " ", "f", "t">>, <<"-", "4", "0", "°", "F", " ">>>>,
      <<Date1, <<"4", "1", "M">>, <<"1", "0", "°", "C">>>>,
      <<Date1, <<"4", "1", "x">>, <<"1", "0", "°", "C">>>>,
      <<Date1, <<"4", "1", "m">>, <<"1", "0", "°", "K">>>>,
      <<Date1, <<"a", "b", "m">>, <<"1", "0", "°", "C">>>>,
      <<Date1, <<"4", "1", "m">>, <<"a", "b", "°", "C">>>>,
      <<Date1, <<>>, <<"1", "0", "°", "C">>>>,
      <<Date1, <<"4", "1", "m">>, <<"1", "0", "C">>>>,
      <<Date1, <<"4", "1", "m">>, <<"1", "0", "°", "°", "C">>>>,
      <<>>,
      <<Date1, <<"4", "1", "m">>, <<"1", "0", "°", "C">>, <<"x">>>> }

Headers == { <<<<"Date">>, <<"Distance">>, <<"Reading">>>>, <<<<"id">>>> }

SeqsUpTo(S, k) == UNION { [1..j -> S] : j \in 0..k }

\* the rows csv.reader yields for a file: nothing at all, or a header and data rows
InputFiles == {<<>>} \cup { <<h>> \o rows : h \in Headers, rows \in SeqsUpTo(Rows, MaxRows) }

TempTargets == {"C", "F", "K"}
DistTargets == {"m", "f", "ft"}

(***************************************************************************)
(* convert_data as a state machine                                         *)
(***************************************************************************)
VARIABLES
    infile,            \* the rows of the input file
    target_temp_unit,
    target_dist_unit,
    pc,                \* "start", "open_out", "header", "loop", "convert", "done", "failed"
    infile_open,       \* the input handle is open
    outfile_open,      \* the output handle is open
    outfile,           \* the rows handed to the writer so far
    pos,               \* rows the reader has yielded so far, the header included
    error,             \* the exception that ended the call, or "none"
    date, distance, reading,
    dist_value, dist_unit,
    temp_value, temp_unit

args   == <<infile, target_temp_unit, target_dist_unit>>
locals == <<date, distance, reading, dist_value, dist_unit, temp_value, temp_unit>>
vars   == <<args, pc, infile_open, outfile_open, outfile, pos, error, locals>>

Init ==
    /\ infile \in InputFiles
    /\ target_temp_unit \in TempTargets
    /\ target_dist_unit \in DistTargets
    /\ pc = "start"
    /\ infile_open = FALSE
    /\ outfile_open = FALSE
    /\ outfile = <<>>
    /\ pos = 0
    /\ error = "none"
    /\ date = <<>> /\ distance = <<>> /\ reading = <<>>
    /\ dist_value = <<>> /\ dist_unit = <<>>
    /\ temp_value = <<>> /\ temp_unit = <<>>

\* WithExit releasing the output handle only
WithExitLeak ==
    /\ infile_open' = infile_open
    /\ outfile_open' = FALSE

\* leaving the with block (lines 46-47) closes whatever it opened
WithExit ==
    /\ infile_open' = FALSE
    /\ outfile_open' = FALSE

\* an exception leaves convert_data through the with block
Raise(err) ==
    /\ pc' = "failed"
    /\ error' = err
    /\ WithExit

\* line 46
OpenInput ==
    /\ pc = "start"
    /\ \/ /\ infile_open' = TRUE
          /\ pc' = "open_out"
          /\ UNCHANGED <<outfile_open, error>>
       \/ Raise("IOError")
    /\ UNCHANGED <<args, outfile, pos, locals>>

\* line 47: mode 'w' truncates the file
OpenOutput ==
    /\ pc = "open_out"
    /\ \/ /\ outfile_open' = TRUE
          /\ outfile' = <<>>
          /\ pc' = "header"
          /\ UNCHANGED <<infile_open, error>>
       \/ /\ Raise("IOError")
          /\ UNCHANGED outfile
    /\ UNCHANGED <<args, pos, locals>>

\* CopyHeader consuming the header without writing it
CopyHeaderDropped ==
    /\ pc = "header"
    /\ \/ /\ infile # <<>>
          /\ pos' = 1
          /\ pc' = "loop"
          /\ UNCHANGED <<outfile, infile_open, outfile_open, error>>
       \/ /\ infile = <<>>
          /\ Raise("StopIteration")
          /\ UNCHANGED <<outfile, pos>>
       \/ /\ Raise("IOError")
          /\ UNCHANGED <<outfile, pos>>
    /\ UNCHANGED <<args, locals>>

\* lines 51-52: next(reader) on a file without rows raises StopIteration
CopyHeader ==
    /\ pc = "header"
    /\ \/ /\ infile # <<>>
          /\ pos' = 1
          /\ outfile' = Append(outfile, infile[1])
          /\ pc' = "loop"
          /\ UNCHANGED <<infile_open, outfile_open, error>>
       \/ /\ infile = <<>>
          /\ Raise("StopIteration")
          /\ UNCHANGED <<outfile, pos>>
       \/ /\ Raise("IOError")
          /\ UNCHANGED <<outfile, pos>>
    /\ UNCHANGED <<args, locals>>

\* lines 55-64: the next row is read, unpacked and split into values and units;
\* when the reader is exhausted the loop and the with block end
NextRow ==
    /\ pc = "loop"
    /\ \/ /\ pos = Len(infile)
          /\ pc' = "done"
          /\ WithExit
          /\ UNCHANGED <<pos, error, locals>>
       \/ /\ pos < Len(infile)
          /\ pos' = pos + 1
          /\ LET row == infile[pos + 1]
             IN  IF Len(row) # 3
                 THEN Raise("ValueError") /\ UNCHANGED locals
                 ELSE LET d == ParseDistance(row[2])
                          r == ParseReading(row[3])
                      IN  IF ~d.ok THEN Raise("IndexError") /\ UNCHANGED locals
                          ELSE IF ~r.ok THEN Raise("ValueError") /\ UNCHANGED locals
                          ELSE /\ date' = row[1]
                               /\ distance' = row[2]
                               /\ reading' = row[3]
                               /\ dist_value' = d.value
                               /\ dist_unit' = d.unit
                               /\ temp_value' = r.value
                               /\ temp_unit' = r.unit
                               /\ pc' = "convert"
                               /\ UNCHANGED <<infile_open, outfile_open, error>>
       \/ /\ pos < Len(infile)
          /\ Raise("IOError")
          /\ UNCHANGED <<pos, locals>>
    /\ UNCHANGED <<args, outfile>>

\* lines 66-86: both fields are converted or passed through and the row is written
ConvertRow ==
    /\ pc = "convert"
    /\ LET nd == NewDistance(target_dist_unit, distance, dist_value, dist_unit)
           nr == NewReading(target_temp_unit, reading, temp_value, temp_unit)
       IN  \/ /\ nd.ok /\ nr.ok
              /\ outfile' = Append(outfile, OutRow(date, nd.s, nr.s))
              /\ pc' = "loop"
              /\ UNCHANGED <<infile_open, outfile_open, error>>
           \/ /\ ~(nd.ok /\ nr.ok)
              /\ Raise("ValueError")
              /\ UNCHANGED outfile
           \/ /\ nd.ok /\ nr.ok
              /\ Raise("IOError")
              /\ UNCHANGED outfile
    /\ UNCHANGED <<args, pos, locals>>

Next == OpenInput \/ OpenOutput \/ CopyHeader \/ NextRow \/ ConvertRow

Spec == Init /\ [][Next]_vars

(***************************************************************************)
(* Vocabulary of the properties: the units and magnitudes of the fields of *)
(* the input, read off the field strings                                   *)
(***************************************************************************)
\* the data rows written so far: outfile[i] is the row written for infile[i]
Written == 2..Len(outfile)

Terminal == pc \in {"done", "failed"}

\* the field ends in "ft", in any of its four spellings
IsFeetField(f) ==
    /\ Len(f) >= 2
    /\ f[Len(f) - 1] \in {"f", "F"}
    /\ f[Len(f)] \in {"t", "T"}

\* the field ends in a lower-case "m"
IsMetersField(f) == Len(f) >= 1 /\ f[Len(f)] = "m"

\* the field with its unit suffix removed
DistMagnitude(f) == IF IsFeetField(f) THEN DropLast(f, 2) ELSE DropLast(f, 1)

HasOneDegree(f) == Cardinality({i \in 1..Len(f) : f[i] = "°"}) = 1

DegreeAt(f) == CHOOSE i \in 1..Len(f) : f[i] = "°"

\* the field is a numeric part, one degree sign, optional whitespace and the letter u
IsTempField(f, u) ==
    /\ HasOneDegree(f)
    /\ Strip(SubSeq(f, DegreeAt(f) + 1, Len(f))) = <<u>>

TempMagnitude(f) == SubSeq(f, 1, DegreeAt(f) - 1)

DistInTarget(f) ==
    \/ target_dist_unit = "m" /\ IsMetersField(f)
    \/ target_dist_unit = "f" /\ IsFeetField(f)

TempInTarget(f) ==
    \/ target_temp_unit = "C" /\ IsTempField(f, "C")
    \/ target_temp_unit = "F" /\ IsTempField(f, "F")

\* the last k characters of f are a "." followed by k - 1 digits
EndsInDecimals(f, k) ==
    /\ Len(f) > k
    /\ f[Len(f) - k + 1] = "."
    /\ \A i \in (Len(f) - k + 2)..Len(f) : IsDigit(f[i])
    /\ IsDigit(f[Len(f) - k])

(***************************************************************************)
(* C1                                                                      *)
(***************************************************************************)
AllInTarget ==
    /\ Len(infile) >= 1
    /\ \A i \in 2..Len(infile) :
        /\ Len(infile[i]) = 3
        /\ DistInTarget(infile[i][2])
        /\ TempInTarget(infile[i][3])

\* C1: a field of a written row whose unit already is the target unit is the
\* input field, character for character; and a run that completes on an input
\* whose every field is in the target units has written the input's rows,
\* header included, unchanged.
C1_PassThroughVerbatim ==
    /\ \A i \in Written :
        /\ Len(infile[i]) = 3 /\ Len(outfile[i]) = 3
        /\ DistInTarget(infile[i][2]) => outfile[i][2] = infile[i][2]
        /\ TempInTarget(infile[i][3]) => outfile[i][3] = infile[i][3]
    /\ (pc = "done" /\ AllInTarget) => outfile = infile

\* a completed run with targets (C, f) that wrote the row (10Ft, 10° C) as it was
C1_Witness ==
    /\ pc = "done"
    /\ target_temp_unit = "C" /\ target_dist_unit = "f"
    /\ AllInTarget
    /\ \E i \in Written :
        /\ infile[i][2] = <<"1", "0", "F", "t">>
        /\ infile[i][3] = <<"1", "0", "°", " ", "C">>
        /\ outfile[i] = infile[i]

(***************************************************************************)
(* C2                                                                      *)
(***************************************************************************)
\* C2: a field of a written row whose unit is the other unit of the target's
\* dimension is the converted magnitude with two decimals and the target's
\* suffix; 0°C gives 32.00°F, 32°F gives 0.00°C, and (41m, 10°C) with targets
\* (F, f) gives (134.51ft, 50.00°F).
C2_ConvertedAndFormatted ==
    \A i \in Written :
        LET dist == infile[i][2]
            temp == infile[i][3]
        IN  /\ (target_dist_unit = "m" /\ IsFeetField(dist)) =>
                /\ IsFloat(DistMagnitude(dist))
                /\ outfile[i][2] = Fmt2(to_m(Float(DistMagnitude(dist)))) \o <<"m">>
                /\ EndsInDecimals(DropLast(outfile[i][2], 1), 3)
            /\ (target_dist_unit = "f" /\ IsMetersField(dist)) =>
                /\ IsFloat(DistMagnitude(dist))
                /\ outfile[i][2] = Fmt2(to_ft(Float(DistMagnitude(dist)))) \o <<"f", "t">>
                /\ EndsInDecimals(DropLast(outfile[i][2], 2), 3)
            /\ (target_temp_unit = "C" /\ IsTempField(temp, "F")) =>
                /\ IsFloat(TempMagnitude(temp))
                /\ outfile[i][3] = Fmt2(to_C(Float(TempMagnitude(temp)))) \o <<"°", "C">>
                /\ EndsInDecimals(DropLast(outfile[i][3], 2), 3)
            /\ (target_temp_unit = "F" /\ IsTempField(temp, "C")) =>
                /\ IsFloat(TempMagnitude(temp))
                /\ outfile[i][3] = Fmt2(to_F(Float(TempMagnitude(temp)))) \o <<"°", "F">>
                /\ EndsInDecimals(DropLast(outfile[i][3], 2), 3)
            /\ (target_temp_unit = "F" /\ temp = <<"0", "°", "C">>) =>
                outfile[i][3] = <<"3", "2", ".", "0", "0", "°", "F">>
            /\ (target_temp_unit = "C" /\ temp = <<"3", "2", "°", "F">>) =>
                outfile[i][3] = <<"0", ".", "0", "0", "°", "C">>
            /\ (/\ target_temp_unit = "F" /\ target_dist_unit = "f"
                /\ dist = <<"4", "1", "m">> /\ temp = <<"1", "0", "°", "C">>) =>
                /\ outfile[i][2] = <<"1", "3", "4", ".", "5", "1", "f", "t">>
                /\ outfile[i][3] = <<"5", "0", ".", "0", "0", "°", "F">>

\* targets (C, m): the row (10ft, 32°F) was written as (3.05m, 0.00°C)
C2_Witness ==
    /\ target_temp_unit = "C" /\ target_dist_unit = "m"
    /\ \E i \in Written :
        /\ infile[i][2] = <<"1", "0", "f", "t">>
        /\ infile[i][3] = <<"3", "2", "°", "F">>
        /\ outfile[i][2] = <<"3", ".", "0", "5", "m">>
        /\ outfile[i][3] = <<"0", ".", "0", "0", "°", "C">>

(***************************************************************************)
(* C3                                                                      *)
(***************************************************************************)
\* a row that is not three fields, whose distance field is empty, whose
\* reading field does not have its degree sign, or one of whose magnitude
\* substrings is not a number
Malformed(row) ==
    \/ Len(row) # 3
    \/ row[2] = <<>>
    \/ ~HasOneDegree(row[3])
    \/ ~IsFloat(DistMagnitude(row[2]))
    \/ ~IsFloat(TempMagnitude(row[3]))

HasMalformedRow == \E i \in 2..Len(infile) : Malformed(infile[i])

FirstMalformed == CHOOSE i \in 2..Len(infile) :
    /\ Malformed(infile[i])
    /\ \A j \in 2..(i - 1) : ~Malformed(infile[j])

\* C3: on an input with a malformed data row, neither that row nor a later one
\* is ever written, the run does not complete, and a run that failed on the
\* data has read up to the first malformed row and written every row before it.
C3_StopsAtFirstMalformed ==
    HasMalformedRow =>
        /\ Len(outfile) < FirstMalformed
        /\ pc # "done"
        /\ (pc = "failed" /\ error \notin {"IOError", "StopIteration"}) =>
            /\ pos = FirstMalformed
            /\ Len(outfile) = FirstMalformed - 1

\* a row on which the parsing steps of the loop raise: not three fields, an
\* empty distance field, or a reading field without exactly one degree sign
ShapeError(row) ==
    \/ Len(row) # 3
    \/ row[2] = <<>>
    \/ ~HasOneDegree(row[3])

\* What the loop keeps of C3, for the rows it does reject (such as a reading
\* of 10C): a row with a shape error and the rows after it are never written,
\* the run does not complete, and a run that failed on the data failed on the
\* row it had just read, with every row before that one written.
StopsAtShapeError ==
    /\ \A i \in 2..Len(infile) : ShapeError(infile[i]) => (Len(outfile) < i /\ pc # "done")
    /\ (pc = "failed" /\ error \notin {"IOError", "StopIteration"}) => Len(outfile) = pos - 1

(***************************************************************************)
(* C4                                                                      *)
(***************************************************************************)
\* C4: every written data row has a distance unit among m, ft and a
\* temperature unit among C, F.
C4_UnrecognisedUnitNeverWritten ==
    \A i \in Written :
        /\ IsMetersField(infile[i][2]) \/ IsFeetField(infile[i][2])
        /\ IsTempField(infile[i][3], "C") \/ IsTempField(infile[i][3], "F")

(***************************************************************************)
(* C5                                                                      *)
(***************************************************************************)
\* C5: every written data row has a distance magnitude and a reading magnitude
\* that float() accepts.
C5_UnparseableMagnitudeNeverWritten ==
    \A i \in Written :
        /\ IsFloat(DistMagnitude(infile[i][2]))
        /\ HasOneDegree(infile[i][3]) /\ IsFloat(TempMagnitude(infile[i][3]))

(***************************************************************************)
(* C6                                                                      *)
(***************************************************************************)
\* C6: in a terminal state, completed or failed, neither handle is open.
C6_HandlesReleased == Terminal => (~infile_open /\ ~outfile_open)

\* a run that failed on its second data row, after both files were opened and
\* rows were written, with both handles closed
C6_Witness ==
    /\ pc = "failed" /\ error = "ValueError"
    /\ Len(outfile) = 2 /\ pos = 3
    /\ ~infile_open /\ ~outfile_open

(***************************************************************************)
(* C7                                                                      *)
(***************************************************************************)
\* C7: the first row written is the input's header, unmodified, and it is
\* written before any data row is read; a header-only input ends in normal
\* completion (failing only on an I/O error) with exactly the header written.
C7_HeaderFirst ==
    /\ Len(outfile) >= 1 => outfile[1] = infile[1]
    /\ (pos >= 2 \/ pc = "convert") => Len(outfile) >= 1
    /\ (Len(infile) = 1 /\ pc = "done") => outfile = <<infile[1]>>
    /\ (Len(infile) = 1 /\ pc = "failed") => error = "IOError"

\* a completed run on a header-only input
C7_Witness ==
    /\ Len(infile) = 1 /\ pc = "done"
    /\ outfile = <<infile[1]>>

(***************************************************************************)
(* C8                                                                      *)
(***************************************************************************)
\* C8: a completed run has written one three-field row per input data row, in
\* order, with the input row's date; and a row is written before the next is
\* read: between rows the writer has every row read, while a row is being
\* converted it has every row but that one.
C8_RowForRow ==
    /\ pc = "done" =>
        /\ Len(outfile) = Len(infile)
        /\ \A i \in 2..Len(infile) :
            /\ Len(outfile[i]) = 3
            /\ outfile[i][1] = infile[i][1]
    /\ pc = "loop" => Len(outfile) = pos
    /\ pc = "convert" => Len(outfile) = pos - 1

\* a completed run on two data rows of different dates
C8_Witness ==
    /\ pc = "done" /\ Len(infile) = 3
    /\ infile[2][1] = Date2 /\ infile[3][1] = Date1
    /\ outfile[2][1] = Date2 /\ outfile[3][1] = Date1

(***************************************************************************)
(* C9                                                                      *)
(***************************************************************************)
\* C9: the row being converted is tagged feet, with two characters stripped,
\* exactly when its distance field ends in ft in any spelling, and is otherwise
\* tagged with its last character as it is; so with target m a written FT, Ft
\* or fT field is converted to meters, and with target f a field ending in M is
\* written as it was.
C9_DistanceTag ==
    /\ pc = "convert" =>
        LET f == infile[pos][2]
        IN  IF IsFeetField(f)
            THEN dist_unit = <<"f", "t">> /\ dist_value = DropLast(f, 2)
            ELSE dist_unit = <<f[Len(f)]>> /\ dist_value = DropLast(f, 1)
    /\ \A i \in Written :
        /\ (target_dist_unit = "m" /\ IsFeetField(infile[i][2])) =>
            /\ outfile[i][2] # infile[i][2]
            /\ LastChars(outfile[i][2], 1) = <<"m">>
        /\ (target_dist_unit = "f" /\ LastChars(infile[i][2], 1) = <<"M">>) =>
            outfile[i][2] = infile[i][2]

\* target f: 41M was written as it was and 10FT is tagged feet
C9_Witness ==
    /\ pc = "convert" /\ target_dist_unit = "f"
    /\ distance = <<"1", "0", "F", "T">>
    /\ dist_unit = <<"f", "t">> /\ dist_value = <<"1", "0">>
    /\ Len(outfile) = 2
    /\ infile[2][2] = <<"4", "1", "M">> /\ outfile[2][2] = <<"4", "1", "M">>

(***************************************************************************)
(* C10                                                                     *)
(***************************************************************************)
\* a field of the documented input format
WellFormedRow(row) ==
    /\ Len(row) = 3
    /\ IsMetersField(row[2]) \/ IsFeetField(row[2])
    /\ IsFloat(DistMagnitude(row[2]))
    /\ IsTempField(row[3], "C") \/ IsTempField(row[3], "F")
    /\ IsFloat(TempMagnitude(row[3]))

WellFormedInput ==
    /\ Len(infile) >= 1
    /\ \A i \in 2..Len(infile) : WellFormedRow(infile[i])

\* C10: with a distance selector other than m and f every written distance
\* field is the input's, with a temperature selector other than C and F every
\* written reading field is the input's, and with such a selector a run on
\* well-formed input fails on an I/O error only.
C10_UnknownSelectorPassesThrough ==
    /\ target_dist_unit \notin {"m", "f"} =>
        \A i \in Written : outfile[i][2] = infile[i][2]
    /\ target_temp_unit \notin {"C", "F"} =>
        \A i \in Written : outfile[i][3] = infile[i][3]
    /\ (/\ target_dist_unit \notin {"m", "f"} \/ target_temp_unit \notin {"C", "F"}
        /\ WellFormedInput
        /\ pc = "failed") => error = "IOError"

\* a completed run with selectors (K, ft) on two well-formed rows in meters and
\* feet, Celsius and Fahrenheit
C10_Witness ==
    /\ pc = "done"
    /\ target_temp_unit = "K" /\ target_dist_unit = "ft"
    /\ WellFormedInput
    /\ Len(infile) = 3
    /\ infile[2][2] = <<"4", "1", "m">> /\ infile[3][3] = <<"3", "2", "°", "F">>
    /\ outfile = infile

=============================================================================
